---- MODULE Spec2Model ----
(***************************************************************************)
(* Model of the stationary wavelet decomposition of radiomics'             *)
(* imageoperations.py: getWaveletImage (a generator), _swt3 and the three  *)
(* axis decomposers _decompose_i, _decompose_j, _decompose_k.              *)
(*                                                                         *)
(* An array is a record [shape, flat]: its shape (a tuple of extents, the  *)
(* numpy order (k, j, i)) and its samples in C order.  An image is an      *)
(* array together with its spatial metadata (spacing, origin, direction),  *)
(* abstracted to one value `meta`.  Indices in the model are 1-based.      *)
(***************************************************************************)
EXTENDS Integers, Sequences, FiniteSets, TLC

\* ------------------------------------------------------------- bounds
MaxDim == 3          \* extents of the input array range over 1..MaxDim
MaxLevel == 2        \* kwargs['level'] ranges over 1..MaxLevel
MaxStartLevel == 1   \* kwargs['start_level'] ranges over 0..MaxStartLevel

\* ------------------------------------------------------------- values
NoShape == <<>>
NoArray == [shape |-> <<>>, flat |-> <<>>]
NoImage == [shape |-> <<>>, flat |-> <<>>, meta |-> 0]
NoWavelet == [name |-> "", dec_lo |-> <<>>, dec_hi |-> <<>>]

\* Metadata of an image built by sitk.GetImageFromArray (unit spacing, zero
\* origin, identity direction), and the metadata an input image may carry.
DefaultMeta == 0
Metas == {1, 2}

\* The keys of the dictionary `dec`, in the order of the dictionary display.
DetailLabels == <<"HHH", "HHL", "HLH", "HLL", "LHH", "LHL", "LLH">>
DetailLabelSet == {DetailLabels[n] : n \in DOMAIN DetailLabels}

\* The orders in which a dictionary keyed by sub-band labels may iterate: the
\* order of insertion (dictionaries that keep it), and two orders of a hashed
\* table.  The order is the same for every dictionary of one run.
DictOrders ==
  { DetailLabels \o <<"LLL">>,
    <<"LLL", "LLH", "LHL", "LHH", "HLL", "HLH", "HHL", "HHH">>,
    <<"HLH", "LLH", "HHH", "LHL", "LLL", "HLL", "HHL", "LHH">> }

\* Names handed to pywt.Wavelet: one it knows, one it does not.
WaveletNames == {"haar", "nowavelet"}

\* ------------------------------------------------------------- arrays
\* The function f on 1..n as a tuple (an array buffer holds values).
Buffer(f, n) == SubSeq(f, 1, n)

RECURSIVE Prod(_)
Prod(s) == IF s = <<>> THEN 1 ELSE Head(s) * Prod(Tail(s))

\* Position in C order of the 0-based index ix of an array of shape s.
Ravel(s, ix) == (ix[1] * s[2] + ix[2]) * s[3] + ix[3] + 1

\* The 0-based index of the position f in C order.
Unravel(s, f) ==
  << (f - 1) \div (s[2] * s[3]), ((f - 1) \div s[3]) % s[2], (f - 1) % s[3] >>

At(a, ix) == a.flat[Ravel(a.shape, ix)]

Indices(s) == { <<k, j, i>> : k \in 0..(s[1] - 1), j \in 0..(s[2] - 1), i \in 0..(s[3] - 1) }

\* ndarray.resize(new_shape, refcheck=False): the buffer is reallocated in
\* place, kept in C order, and missing entries are filled with zeros.
ndarray_resize(a, new_shape) ==
  [shape |-> new_shape,
   flat  |-> Buffer([f \in 1..Prod(new_shape) |->
                       IF f <= Len(a.flat) THEN a.flat[f] ELSE 0],
                    Prod(new_shape))]

\* numpy.resize(a, new_shape): a new array filled from the flattened `a`,
\* repeated as often as needed.
numpy_resize(a, new_shape) ==
  [shape |-> new_shape,
   flat  |-> Buffer([f \in 1..Prod(new_shape) |->
                       IF Len(a.flat) = 0 THEN 0
                       ELSE a.flat[((f - 1) % Len(a.flat)) + 1]],
                    Prod(new_shape))]

\* ndarray.reshape(shape) of a flat buffer.
reshape(flat, shape) == [shape |-> shape, flat |-> flat]

\* numpy.transpose(a, axes); axes is the permutation, 1-based:
\* result.shape[n] = a.shape[axes[n]].
transpose(a, axes) ==
  LET ns == <<a.shape[axes[1]], a.shape[axes[2]], a.shape[axes[3]]>>
      inv == Buffer([m \in 1..3 |-> CHOOSE n \in 1..3 : axes[n] = m], 3)
  IN  [shape |-> ns,
       flat  |-> Buffer([f \in 1..Prod(ns) |->
                           LET ix == Unravel(ns, f)
                           IN  a.flat[Ravel(a.shape, <<ix[inv[1]], ix[inv[2]], ix[inv[3]]>>)]],
                        Prod(ns))]

\* chain.from_iterable(a) for a 3D array: its rows (lines along the last
\* axis), in C order.
chain_from_iterable(a) ==
  Buffer([n \in 1..(a.shape[1] * a.shape[2]) |->
            SubSeq(a.flat, (n - 1) * a.shape[3] + 1, n * a.shape[3])],
         a.shape[1] * a.shape[2])

\* numpy.hstack / numpy.vstack of equally long lines, as a flat buffer.
stack(ls, len) ==
  Buffer([f \in 1..(Len(ls) * len) |-> ls[((f - 1) \div len) + 1][((f - 1) % len) + 1]],
         Len(ls) * len)

\* ------------------------------------------------------------- pywt
\* pywt.Wavelet(name): the analysis filters of the wavelet; an unknown name
\* raises.  The filters are kept integral (haar without its 1/sqrt(2)).
pywt_Wavelet(name) ==
  IF name = "haar"
  THEN [ok |-> TRUE,
        w  |-> [name |-> "haar", dec_lo |-> <<1, 1>>, dec_hi |-> <<-1, 1>>]]
  ELSE [ok |-> FALSE, w |-> NoWavelet]

\* pywt.swt needs an even number of samples.
swt_ok(len) == len % 2 = 0

\* pywt.swt(line, wavelet, level=1, start_level=0)[0]: one level of the
\* undecimated transform, periodic, both outputs as long as the input.
swt(line, w) ==
  LET N == Len(line)
      conv(h) == Buffer([n \in 1..N |->
                           h[2] * line[n] + h[1] * line[(n % N) + 1]], N)
  IN  [cA |-> conv(w.dec_lo), cD |-> conv(w.dec_hi)]

\* ------------------------------------------------------------- axis decomposers
\* _decompose_i: the transform of every line along the last axis (i).
_decompose_i(data, w) ==
  LET ls == chain_from_iterable(data)
      c  == Buffer([n \in DOMAIN ls |-> swt(ls[n], w)], Len(ls))
      len == data.shape[3]
  IN  [H |-> reshape(stack(Buffer([n \in DOMAIN c |-> c[n].cD], Len(c)), len), data.shape),
       L |-> reshape(stack(Buffer([n \in DOMAIN c |-> c[n].cA], Len(c)), len), data.shape)]

\* _decompose_j: the transform of every line along the middle axis (j).
_decompose_j(data, w) ==
  LET s  == data.shape
      ls == chain_from_iterable(transpose(data, <<1, 3, 2>>))
      c  == Buffer([n \in DOMAIN ls |-> swt(ls[n], w)], Len(ls))
      len == s[2]
  IN  [H |-> transpose(reshape(stack(Buffer([n \in DOMAIN c |-> c[n].cD], Len(c)), len),
                               <<s[1], s[3], s[2]>>), <<1, 3, 2>>),
       L |-> transpose(reshape(stack(Buffer([n \in DOMAIN c |-> c[n].cA], Len(c)), len),
                               <<s[1], s[3], s[2]>>), <<1, 3, 2>>)]

\* Mutant of _decompose_k: the stacked lines are reshaped as in _decompose_i,
\* without the split in blocks and the reversal of the axes.
_decompose_k_reshape(data, w) ==
  LET ls == chain_from_iterable(transpose(data, <<3, 2, 1>>))
      c  == Buffer([n \in DOMAIN ls |-> swt(ls[n], w)], Len(ls))
      len == data.shape[1]
  IN  [H |-> reshape(stack(Buffer([n \in DOMAIN c |-> c[n].cD], Len(c)), len), data.shape),
       L |-> reshape(stack(Buffer([n \in DOMAIN c |-> c[n].cA], Len(c)), len), data.shape)]

\* _decompose_k: the transform of every line along the first axis (k).  The
\* stacked lines are split in data.shape[2] blocks and the result is reversed
\* in its axes (.T).
_decompose_k(data, w) ==
  LET s  == data.shape
      ls == chain_from_iterable(transpose(data, <<3, 2, 1>>))
      c  == Buffer([n \in DOMAIN ls |-> swt(ls[n], w)], Len(ls))
      len == s[1]
      blocks == s[3]
  IN  [H |-> transpose(reshape(stack(Buffer([n \in DOMAIN c |-> c[n].cD], Len(c)), len),
                               <<blocks, Len(ls) \div blocks, len>>), <<3, 2, 1>>),
       L |-> transpose(reshape(stack(Buffer([n \in DOMAIN c |-> c[n].cA], Len(c)), len),
                               <<blocks, Len(ls) \div blocks, len>>), <<3, 2, 1>>)]

\* Every pywt.swt call of one pass gets a line of even length.
pass_ok(data) ==
  /\ swt_ok(data.shape[3])
  /\ swt_ok(data.shape[2])
  /\ swt_ok(data.shape[1])

\* One call of an axis decomposer: the axis, the argument, the two results.
call(axis, arg, r) == [axis |-> axis, input |-> arg, H |-> r.H, L |-> r.L]

\* The body of the warm-up loop: only the L, LL, LLL chain is used.  `calls`
\* lists the decomposer calls in the order they are made.
warmup_body(data, w) ==
  LET i_ == _decompose_i(data, w)
      j_ == _decompose_j(i_.L, w)
      k_ == _decompose_k(j_.L, w)
  IN  [LLH |-> k_.H, LLL |-> k_.L,
       calls |-> <<call("i", data, i_), call("j", i_.L, j_), call("k", j_.L, k_)>>]

\* Mutant of emission_body: the results of the axis-k calls are unpacked in
\* the wrong order (L, H).
emission_body_unpack(data, w) ==
  LET i_  == _decompose_i(data, w)
      jH  == _decompose_j(i_.H, w)
      jL  == _decompose_j(i_.L, w)
      kHH == _decompose_k(jH.H, w)
      kHL == _decompose_k(jH.L, w)
      kLH == _decompose_k(jL.H, w)
      kLL == _decompose_k(jL.L, w)
  IN  [HHH |-> kHH.L, HHL |-> kHH.H,
       HLH |-> kHL.L, HLL |-> kHL.H,
       LHH |-> kLH.L, LHL |-> kLH.H,
       LLH |-> kLL.H, LLL |-> kLL.L,
       calls |-> <<call("i", data, i_),
                   call("j", i_.H, jH), call("j", i_.L, jL),
                   call("k", jH.H, kHH), call("k", jH.L, kHL),
                   call("k", jL.H, kLH), call("k", jL.L, kLL)>>]

\* The body of the emission loop up to `data = LLL.copy()`: the eight
\* sub-bands of `data`, and the decomposer calls in the order they are made.
emission_body(data, w) ==
  LET i_  == _decompose_i(data, w)
      jH  == _decompose_j(i_.H, w)
      jL  == _decompose_j(i_.L, w)
      kHH == _decompose_k(jH.H, w)
      kHL == _decompose_k(jH.L, w)
      kLH == _decompose_k(jL.H, w)
      kLL == _decompose_k(jL.L, w)
  IN  [HHH |-> kHH.H, HHL |-> kHH.L,
       HLH |-> kHL.H, HLL |-> kHL.L,
       LHH |-> kLH.H, LHL |-> kLH.L,
       LLH |-> kLL.H, LLL |-> kLL.L,
       calls |-> <<call("i", data, i_),
                   call("j", i_.H, jH), call("j", i_.L, jL),
                   call("k", jH.H, kHH), call("k", jH.L, kHL),
                   call("k", jL.H, kLH), call("k", jL.L, kLL)>>]

\* ------------------------------------------------------------- SimpleITK
\* sitk.GetArrayFromImage(image): a copy of the samples.
GetArrayFromImage(img) == [shape |-> img.shape, flat |-> img.flat]

\* sitk.GetImageFromArray(a): a new image with default metadata.
GetImageFromArray(a) == [shape |-> a.shape, flat |-> a.flat, meta |-> DefaultMeta]

\* image.CopyInformation(src) needs images of one size,
CopyInformation_ok(img, src) == img.shape = src.shape

\* Mutant of CopyInformation: the metadata is not copied.
CopyInformation_none(img, src) == img

\* and then copies origin, spacing and direction.
CopyInformation(img, src) == [img EXCEPT !.meta = src.meta]

\* ------------------------------------------------------------- _swt3 helpers
\* Mutant of ndim_ok: arrays of more than three dimensions pass the check.
ndim_ok_atleast(m) == Len(m.shape) >= 3

\* matrix.ndim != 3 raises ValueError("Expected 3D data array").
ndim_ok(m) == Len(m.shape) = 3

\* Mutant of adjusted: the test of the extent is inverted.
adjusted_inverted(shape) ==
  Buffer([n \in DOMAIN shape |-> IF shape[n] % 2 = 0 THEN shape[n] + 1 ELSE shape[n]],
         Len(shape))

\* adjusted_shape: every odd extent plus one.
adjusted(shape) ==
  Buffer([n \in DOMAIN shape |-> IF shape[n] % 2 # 0 THEN shape[n] + 1 ELSE shape[n]],
         Len(shape))

\* data = matrix.copy(); data.resize(adjusted_shape, refcheck=False)
pad(m, adjusted_shape) == ndarray_resize(m, adjusted_shape)

\* Mutant of trim: the working-shape array is handed on untrimmed.
trim_none(a, shape) == a

\* numpy.resize(decTemp, original_shape), numpy.resize(data, original_shape)
trim(a, shape) == numpy_resize(a, shape)

\* Mutant of warmup_stop: the warm-up loop runs one pass short.
warmup_stop_short(kw) == kw.start_level - 1

\* Mutant of emission_stop: range(start_level, level).
emission_stop_level(kw) == kw.level

\* range(0, start_level) and range(start_level, start_level + level)
warmup_stop(kw) == kw.start_level
emission_start(kw) == kw.start_level
emission_stop(kw) == kw.start_level + kw.level

\* Mutant of dec_keys: the dictionary holds all eight sub-bands.
dec_keys_eight == DetailLabelSet \cup {"LLL"}

\* dec = {'HHH': HHH, ..., 'LLH': LLH}
dec_keys == DetailLabelSet

\* The image made of one array: trimmed, wrapped, given the input's metadata.
to_image(a, shape, src) == CopyInformation(GetImageFromArray(trim(a, shape)), src)

\* ------------------------------------------------------------- getWaveletImage helpers
\* Mutant of detail_name: the level is always entered into the name.
detail_name_numbered(idx_, name) == "wavelet" \o ToString(idx_) \o "-" \o name

\* 'wavelet-%s' % name when idx == 1, else 'wavelet%s-%s' % (idx, name)
detail_name(idx_, name) ==
  IF idx_ = 1 THEN "wavelet-" \o name
  ELSE "wavelet" \o ToString(idx_) \o "-" \o name

\* Mutant of approx_name: the level is never entered into the name.
approx_name_plain(n) == "wavelet-LLL"

\* 'wavelet-LLL' when len(ret) == 1, else 'wavelet%s-LLL' % len(ret)
approx_name(n) ==
  IF n = 1 THEN "wavelet-LLL"
  ELSE "wavelet" \o ToString(n) \o "-LLL"

\* ------------------------------------------------------------- state
VARIABLES
  inputImage,      \* the image handed to getWaveletImage
  kwargs,          \* wavelet, level, start_level
  pc,              \* position of the generator
  err,             \* the exception that ended the run, "" if none
  matrix,          \* _swt3: the array of the input image
  original_shape,  \* _swt3
  adjusted_shape,  \* _swt3
  data,            \* _swt3: the current working volume
  wavelet,         \* _swt3: the resolved pywt.Wavelet
  i,               \* _swt3: loop counter of both loops
  ret,             \* _swt3: list of dictionaries label -> image
  approximation,   \* _swt3: the approximation image
  idx,             \* getWaveletImage: 1-based position in ret
  keys,            \* getWaveletImage: keys of ret[idx] not yet iterated, in order
  dict_order,      \* the iteration order of the interpreter's dictionaries
  out,             \* the items yielded so far
  passes,          \* log of the passes run: kind, input volume, LLL volume
  calls            \* _swt3: the decomposer calls of the last pass, in order

vars == <<inputImage, kwargs, pc, err, matrix, original_shape, adjusted_shape,
          data, wavelet, i, ret, approximation, idx, keys, dict_order, out, passes,
          calls>>

swt3_locals == <<matrix, original_shape, adjusted_shape, data, wavelet, i, ret,
                 approximation>>

\* ------------------------------------------------------------- inputs
Extents == 1..MaxDim
Shapes3D == { <<k, j, n>> : k \in Extents, j \in Extents, n \in Extents }
Shapes2D == { <<j, n>> : j \in Extents, n \in Extents }
Shapes4D == { <<1>> \o s : s \in Shapes3D }

\* The samples of an input are pairwise different and nonzero, so that the
\* zero fill and every moved sample show.
Image(shape, meta) ==
  [shape |-> shape, flat |-> Buffer([f \in 1..Prod(shape) |-> f], Prod(shape)), meta |-> meta]

InputImages == { Image(s, m) : s \in Shapes3D \cup Shapes2D \cup Shapes4D, m \in Metas }

Kwargs == [wavelet : WaveletNames, level : 1..MaxLevel, start_level : 0..MaxStartLevel]

\* wl.items(): the keys of the dictionary d in iteration order.
items(d, order) == SelectSeq(order, LAMBDA l : l \in DOMAIN d)

Init ==
  /\ inputImage \in InputImages
  /\ kwargs \in Kwargs
  /\ pc = "created"
  /\ err = ""
  /\ matrix = NoArray
  /\ original_shape = NoShape
  /\ adjusted_shape = NoShape
  /\ data = NoArray
  /\ wavelet = NoWavelet
  /\ i = 0
  /\ ret = <<>>
  /\ approximation = NoImage
  /\ idx = 0
  /\ keys = <<>>
  /\ dict_order \in DictOrders
  /\ out = <<>>
  /\ passes = <<>>
  /\ calls = <<>>

\* ------------------------------------------------------------- _swt3
Raise(e) ==
  /\ pc' = "raised"
  /\ err' = e

\* Lines 399, 421-424: the first next() enters _swt3; the array is 3D.
Swt3Enter ==
  /\ pc = "created"
  /\ ndim_ok(GetArrayFromImage(inputImage))
  /\ matrix' = GetArrayFromImage(inputImage)
  /\ pc' = "pad"
  /\ UNCHANGED <<calls, dict_order, inputImage, kwargs, err, original_shape, adjusted_shape, data,
                 wavelet, i, ret, approximation, idx, keys, out, passes>>

\* Lines 423-424: the array is not 3D.
Swt3ShapeError ==
  /\ pc = "created"
  /\ ~ ndim_ok(GetArrayFromImage(inputImage))
  /\ matrix' = GetArrayFromImage(inputImage)
  /\ Raise("ValueError: Expected 3D data array")
  /\ UNCHANGED <<calls, dict_order, inputImage, kwargs, original_shape, adjusted_shape, data,
                 wavelet, i, ret, approximation, idx, keys, out, passes>>

\* Lines 426-429.
Swt3Pad ==
  /\ pc = "pad"
  /\ original_shape' = matrix.shape
  /\ adjusted_shape' = adjusted(matrix.shape)
  /\ data' = pad(matrix, adjusted(matrix.shape))
  /\ pc' = "resolve"
  /\ UNCHANGED <<calls, dict_order, inputImage, kwargs, err, matrix, wavelet, i, ret, approximation,
                 idx, keys, out, passes>>

\* Position after the warm-up loop: the emission loop, if it has a pass.
emission_entry(kw) ==
  IF emission_start(kw) < emission_stop(kw) THEN "emit" ELSE "return"

\* Mutant of after_emission: the return sits inside the loop body.
after_emission_return(i_, kw) == "return"

\* Position after an emission pass: the loop goes on or _swt3 returns.
after_emission(i_, kw) ==
  IF i_ + 1 < emission_stop(kw) THEN "emit" ELSE "return"

\* Lines 431-434: the name resolves; the warm-up loop is entered.
Swt3ResolveWavelet ==
  /\ pc = "resolve"
  /\ pywt_Wavelet(kwargs.wavelet).ok
  /\ wavelet' = pywt_Wavelet(kwargs.wavelet).w
  /\ IF 0 < warmup_stop(kwargs)
     THEN /\ pc' = "warmup"
          /\ i' = 0
     ELSE /\ pc' = emission_entry(kwargs)
          /\ i' = emission_start(kwargs)
  /\ UNCHANGED <<calls, dict_order, inputImage, kwargs, err, matrix, original_shape, adjusted_shape,
                 data, ret, approximation, idx, keys, out, passes>>

\* Line 432: pywt.Wavelet raises on an unknown name.
Swt3ResolveError ==
  /\ pc = "resolve"
  /\ ~ pywt_Wavelet(kwargs.wavelet).ok
  /\ Raise("ValueError: Unknown wavelet name")
  /\ UNCHANGED <<calls, dict_order, inputImage, kwargs, matrix, original_shape, adjusted_shape,
                 data, wavelet, i, ret, approximation, idx, keys, out, passes>>

\* Lines 434-439: one iteration of the warm-up loop.
Swt3WarmupPass ==
  /\ pc = "warmup"
  /\ IF pass_ok(data)
     THEN \E b \in {warmup_body(data, wavelet)} :
              /\ data' = b.LLL
              /\ passes' = Append(passes, [kind |-> "warmup", input |-> data, LLL |-> b.LLL])
              /\ calls' = b.calls
              /\ IF i + 1 < warmup_stop(kwargs)
                 THEN /\ pc' = "warmup"
                      /\ i' = i + 1
                 ELSE /\ pc' = emission_entry(kwargs)
                      /\ i' = emission_start(kwargs)
              /\ UNCHANGED err
     ELSE /\ Raise("ValueError: Length of data must be even")
          /\ UNCHANGED <<data, passes, calls, i>>
  /\ UNCHANGED <<dict_order, inputImage, kwargs, matrix, original_shape, adjusted_shape,
                 wavelet, ret, approximation, idx, keys, out>>

\* Lines 442-469: one iteration of the emission loop.
Swt3EmissionPass ==
  /\ pc = "emit"
  /\ IF pass_ok(data)
     THEN \E b \in {emission_body(data, wavelet)} :
          LET dec == [l \in dec_keys |-> to_image(b[l], original_shape, inputImage)]
          IN  IF \A l \in dec_keys :
                   CopyInformation_ok(GetImageFromArray(trim(b[l], original_shape)), inputImage)
              THEN /\ data' = b.LLL
                   /\ ret' = Append(ret, dec)
                   /\ passes' = Append(passes, [kind |-> "emission", input |-> data, LLL |-> b.LLL])
                   /\ calls' = b.calls
                   /\ i' = i + 1
                   /\ pc' = after_emission(i, kwargs)
                   /\ UNCHANGED err
              ELSE /\ Raise("RuntimeError: CopyInformation size mismatch")
                   /\ data' = b.LLL
                   /\ calls' = b.calls
                   /\ UNCHANGED <<ret, passes, i>>
     ELSE /\ Raise("ValueError: Length of data must be even")
          /\ UNCHANGED <<data, ret, passes, calls, i>>
  /\ UNCHANGED <<dict_order, inputImage, kwargs, matrix, original_shape, adjusted_shape,
                 wavelet, approximation, idx, keys, out>>

\* Lines 435-437, 443-451: a pywt.swt call of the pass fails.
Swt3PassRaises ==
  /\ pc \in {"warmup", "emit"}
  /\ Raise("swt")
  /\ UNCHANGED <<calls, dict_order, inputImage, kwargs, matrix, original_shape, adjusted_shape,
                 data, wavelet, i, ret, approximation, idx, keys, out, passes>>

\* Lines 471-475 and 399-401: _swt3 returns; the loop over ret is entered.
Swt3Return ==
  /\ pc = "return"
  /\ data' = trim(data, original_shape)
  /\ calls' = <<>>
  /\ IF CopyInformation_ok(GetImageFromArray(trim(data, original_shape)), inputImage)
     THEN /\ approximation' = to_image(data, original_shape, inputImage)
          /\ IF Len(ret) >= 1
             THEN /\ pc' = "yield_detail"
                  /\ idx' = 1
                  /\ keys' = items(ret[1], dict_order)
             ELSE /\ pc' = "yield_approx"
                  /\ UNCHANGED <<idx, keys>>
          /\ UNCHANGED err
     ELSE /\ Raise("RuntimeError: CopyInformation size mismatch")
          /\ UNCHANGED <<approximation, idx, keys>>
  /\ UNCHANGED <<dict_order, inputImage, kwargs, matrix, original_shape, adjusted_shape,
                 wavelet, i, ret, out, passes>>

\* ------------------------------------------------------------- getWaveletImage
\* Lines 401-410: the next key of ret[idx], in the dictionary's own order,
\* is named and yielded.
YieldDetail ==
  /\ pc = "yield_detail"
  /\ LET decompositionName == Head(keys) IN
       /\ out' = Append(out, [image  |-> ret[idx][decompositionName],
                              name   |-> detail_name(idx, decompositionName),
                              kwargs |-> kwargs])
       /\ IF Tail(keys) # <<>>
          THEN /\ keys' = Tail(keys)
               /\ UNCHANGED <<idx, pc>>
          ELSE IF idx < Len(ret)
               THEN /\ idx' = idx + 1
                    /\ keys' = items(ret[idx + 1], dict_order)
                    /\ UNCHANGED pc
               ELSE /\ keys' = <<>>
                    /\ pc' = "yield_approx"
                    /\ UNCHANGED idx
  /\ UNCHANGED <<calls, dict_order, inputImage, kwargs, err, swt3_locals, passes>>

\* Lines 412-417: the approximation is named and yielded.
YieldApprox ==
  /\ pc = "yield_approx"
  /\ out' = Append(out, [image  |-> approximation,
                         name   |-> approx_name(Len(ret)),
                         kwargs |-> kwargs])
  /\ pc' = "suspended"
  /\ UNCHANGED <<calls, dict_order, inputImage, kwargs, err, swt3_locals, idx, keys, passes>>

\* Line 417: the next() after the last item ends the generator.
StopIteration ==
  /\ pc = "suspended"
  /\ pc' = "done"
  /\ UNCHANGED <<calls, dict_order, inputImage, kwargs, err, swt3_locals, idx, keys, out, passes>>

Next ==
  \/ Swt3Enter
  \/ Swt3ShapeError
  \/ Swt3Pad
  \/ Swt3ResolveWavelet
  \/ Swt3ResolveError
  \/ Swt3WarmupPass
  \/ Swt3EmissionPass
  \/ Swt3PassRaises
  \/ Swt3Return
  \/ YieldDetail
  \/ YieldApprox
  \/ StopIteration

Spec == Init /\ [][Next]_vars

\* ------------------------------------------------------------- properties
\* Decimal numerals, for the identifiers the properties expect.
Numeral == <<"1", "2", "3", "4", "5", "6", "7", "8", "9">>

SevenLabels == {"HHH", "HHL", "HLH", "HLL", "LHH", "LHL", "LLH"}

ExpectedDetailName(lvl, L) ==
  IF lvl = 1 THEN "wavelet-" \o L ELSE "wavelet" \o Numeral[lvl] \o "-" \o L

ExpectedApproxName(n) ==
  IF n = 1 THEN "wavelet-LLL" ELSE "wavelet" \o Numeral[n] \o "-LLL"

LLLNames == {"wavelet-LLL", "wavelet0-LLL"} \cup {"wavelet" \o Numeral[n] \o "-LLL" : n \in DOMAIN Numeral}

ExpectedItems == 7 * kwargs.level + 1

\* The level (1-based, among the emitted levels) of the p-th yielded item.
LevelOf(p) == ((p - 1) \div 7) + 1

\* The first n samples of b, in C order, are the samples of a.
Truncation(a, b) ==
  /\ Len(a.flat) <= Len(b.flat)
  /\ \A f \in 1..Len(a.flat) : a.flat[f] = b.flat[f]

Consumed == pc \in {"suspended", "done"}

\* C1: level-count law.  A run never yields more than 7 * level + 1 items;
\* when the generator has yielded its last item, and when it has stopped, it
\* has yielded exactly 7 * level + 1 items, whatever start_level is, and the
\* last of them is the approximation: the image _swt3 returned, made of the
\* LLL volume of the last pass.
C1_LevelCount ==
  /\ Len(out) <= ExpectedItems
  /\ Consumed =>
       /\ Len(out) = ExpectedItems
       /\ out[Len(out)].image = approximation
       /\ passes # <<>>
       /\ Truncation(out[Len(out)].image, passes[Len(passes)].LLL)

C1_Witness ==
  /\ pc = "done"
  /\ kwargs.level = 2
  /\ kwargs.start_level = 1
  /\ Len(out) = 15

\* C2: detail naming law.  The p-th yielded item, p <= 7 * level, belongs to
\* the emitted level idx = (p - 1) div 7 + 1: it is the image stored under a
\* detail label L in the idx-th dictionary of ret, and its identifier is
\* "wavelet-" + L when idx = 1 and "wavelet" + idx + "-" + L otherwise.  The
\* level of an item depends on its position only (not on start_level), so
\* the items of a level come before every item of the next.
C2_DetailNaming ==
  \A p \in 1..Len(out) :
    p <= 7 * kwargs.level =>
      /\ LevelOf(p) <= Len(ret)
      /\ \E L \in SevenLabels :
           /\ L \in DOMAIN ret[LevelOf(p)]
           /\ out[p].image = ret[LevelOf(p)][L]
           /\ out[p].name = ExpectedDetailName(LevelOf(p), L)

C2_Witness ==
  /\ kwargs.start_level = 1
  /\ kwargs.level = 2
  /\ Len(out) >= 10
  /\ out[1].name \in {"wavelet-HHH", "wavelet-LLH", "wavelet-HLH"}
  /\ out[10].name \in {"wavelet2-HLH", "wavelet2-LHH", "wavelet2-HHH"}

\* C3: the approximation is yielded once, last.  An item carries an LLL
\* identifier exactly if it is item 7 * level + 1; that item is the
\* approximation image and its identifier is "wavelet-LLL" for one level and
\* "wavelet" + level + "-LLL" otherwise; a consumed run has yielded it.
C3_ApproximationOnceLast ==
  /\ \A p \in 1..Len(out) :
       /\ (out[p].name \in LLLNames) <=> (p = ExpectedItems)
       /\ p = ExpectedItems =>
            /\ out[p].name = ExpectedApproxName(kwargs.level)
            /\ out[p].image = approximation
  /\ Consumed => Len(out) = ExpectedItems
  /\ pc = "yield_detail" => Len(out) < ExpectedItems - 1

C3_Witness ==
  /\ pc = "done"
  /\ kwargs.level = 2
  /\ Len(out) = 15
  /\ out[15].name = "wavelet2-LLL"
  /\ \A p \in 1..14 : out[p].name \notin LLLNames

\* C4: sub-band completeness.  Every dictionary of ret has exactly the seven
\* detail labels as keys; the identifiers yielded for a level are pairwise
\* different identifiers of the seven labels, and once the level is emitted
\* they are all seven.
C4_SubbandCompleteness ==
  /\ \A lvl \in 1..Len(ret) : DOMAIN ret[lvl] = SevenLabels
  /\ \A lvl \in 1..kwargs.level :
       LET ps == { p \in 1..Len(out) : p <= 7 * kwargs.level /\ LevelOf(p) = lvl }
           names == { out[p].name : p \in ps }
       IN  /\ names \subseteq { ExpectedDetailName(lvl, L) : L \in SevenLabels }
           /\ Cardinality(names) = Cardinality(ps)
           /\ (Len(out) >= 7 * lvl) =>
                names = { ExpectedDetailName(lvl, L) : L \in SevenLabels }

C4_Witness ==
  /\ kwargs.level = 2
  /\ Len(out) = 14
  /\ { out[p].name : p \in 8..14 } = { ExpectedDetailName(2, L) : L \in SevenLabels }

\* C5: shape preservation.  Every yielded image has the shape of the input
\* array and as many samples as that shape holds, also when the working shape
\* differs from it, and no run ends because an image of another shape was
\* given the input's metadata.
C5_ShapePreservation ==
  /\ err # "RuntimeError: CopyInformation size mismatch"
  /\ \A p \in 1..Len(out) :
       /\ out[p].image.shape = inputImage.shape
       /\ Len(out[p].image.flat) = Prod(inputImage.shape)

C5_Witness ==
  /\ pc = "done"
  /\ inputImage.shape = <<3, 2, 3>>
  /\ adjusted_shape = <<4, 2, 4>>
  /\ Len(out) = 15
  /\ \A p \in 1..Len(out) : out[p].image.shape = <<3, 2, 3>>

\* C6: index alignment of padding and trimming.  After padding, the working
\* volume holds at every index of the original extent the input's sample of
\* that index (the fill is outside the original extent); after trimming, the
\* approximation holds at every index the sample the last LLL volume has at
\* that index.
C6_IndexAlignment ==
  /\ pc = "resolve" =>
       \A ix \in Indices(original_shape) : At(data, ix) = At(matrix, ix)
  /\ Consumed =>
       \A ix \in Indices(original_shape) :
         At(approximation, ix) = At(passes[Len(passes)].LLL, ix)

\* C7: shape error.  When the input array is not three-dimensional, the first
\* step of the run raises ValueError, and at that point nothing was padded,
\* no wavelet was resolved, no pass was run and nothing was yielded.
C7_ShapeError ==
  (Len(inputImage.shape) # 3 /\ pc # "created") =>
    /\ pc = "raised"
    /\ err = "ValueError: Expected 3D data array"
    /\ original_shape = NoShape
    /\ adjusted_shape = NoShape
    /\ data = NoArray
    /\ wavelet = NoWavelet
    /\ passes = <<>>
    /\ ret = <<>>
    /\ out = <<>>

C7_Witness ==
  /\ pc = "raised"
  /\ Len(inputImage.shape) = 2
  /\ err = "ValueError: Expected 3D data array"
  /\ out = <<>>

\* C8: no partial success.  A run that raised has yielded nothing and carries
\* the error of the step that failed; a run that has yielded an item has no
\* error, has run all start_level + level passes and built all level
\* dictionaries and the approximation before, and only yields from then on;
\* a consumed run has yielded 7 * level + 1 items.
C8_NoPartialSuccess ==
  /\ pc = "raised" =>
       /\ out = <<>>
       /\ err \in {"ValueError: Expected 3D data array",
                   "ValueError: Unknown wavelet name", "swt"}
  /\ pc # "raised" => err = ""
  /\ out # <<>> =>
       /\ pc \in {"yield_detail", "yield_approx", "suspended", "done"}
       /\ Len(passes) = kwargs.start_level + kwargs.level
       /\ Len(ret) = kwargs.level
       /\ approximation # NoImage
  /\ Consumed => Len(out) = ExpectedItems

C8_Witness ==
  /\ pc = "raised"
  /\ err = "swt"
  /\ kwargs.level = 2
  /\ Len(passes) = 2
  /\ Len(ret) = 1
  /\ out = <<>>

\* C9: metadata passthrough.  Every yielded image carries the metadata of the
\* input image, which is not the default metadata of a new image; the input
\* image keeps its samples and metadata, and the array read from it is not
\* resized.
C9_MetadataPassthrough ==
  /\ \A p \in 1..Len(out) : out[p].image.meta = inputImage.meta
  /\ inputImage.meta \in Metas
  /\ Len(inputImage.flat) = Prod(inputImage.shape)
  /\ \A f \in 1..Len(inputImage.flat) : inputImage.flat[f] = f
  /\ matrix # NoArray =>
       /\ matrix.shape = inputImage.shape
       /\ matrix.flat = inputImage.flat

C9_Witness ==
  /\ pc = "done"
  /\ inputImage.meta = 2
  /\ inputImage.shape = <<3, 3, 3>>
  /\ Len(out) = 15
  /\ \A p \in 1..Len(out) : out[p].image.meta = 2

\* The working volume the padding step makes of the input: every odd extent
\* plus one, the input's samples followed by zeros.
PaddedInput ==
  LET s == inputImage.shape
      ws == <<s[1] + (s[1] % 2), s[2] + (s[2] % 2), s[3] + (s[3] % 2)>>
  IN  [shape |-> ws,
       flat  |-> [f \in 1..(ws[1] * ws[2] * ws[3]) |->
                    IF f <= Len(inputImage.flat) THEN inputImage.flat[f] ELSE 0]]

\* C10: recursion controller.  The passes of a run are, in sequence,
\* start_level warm-up passes and then at most level emission passes (exactly
\* level once _swt3 has returned); the first pass reads the padded input and
\* every later pass the LLL of the pass before it; ret holds one dictionary
\* per emission pass and none for a warm-up pass; the approximation is made
\* of the LLL of the last emission pass.
C10_RecursionController ==
  /\ Len(passes) <= kwargs.start_level + kwargs.level
  /\ \A n \in 1..Len(passes) :
       /\ passes[n].kind = IF n <= kwargs.start_level THEN "warmup" ELSE "emission"
       /\ passes[n].input = IF n = 1 THEN PaddedInput ELSE passes[n - 1].LLL
  /\ Len(ret) = IF Len(passes) > kwargs.start_level
                THEN Len(passes) - kwargs.start_level ELSE 0
  /\ pc = "warmup" => Len(passes) < kwargs.start_level
  /\ pc = "emit" => Len(passes) >= kwargs.start_level
  /\ pc \in {"return", "yield_detail", "yield_approx", "suspended", "done"} =>
       /\ Len(passes) = kwargs.start_level + kwargs.level
       /\ passes[Len(passes)].kind = "emission"
  /\ pc \in {"yield_detail", "yield_approx", "suspended", "done"} =>
       /\ approximation.shape = inputImage.shape
       /\ Truncation(approximation, passes[Len(passes)].LLL)

C10_Witness ==
  /\ pc = "done"
  /\ kwargs.start_level = 1
  /\ kwargs.level = 2
  /\ Len(passes) = 3
  /\ passes[1].kind = "warmup"
  /\ passes[3].kind = "emission"
  /\ passes[3].input = passes[2].LLL

\* The position (1-based) in a shape of the axis a decomposer transforms.
AxisPos(axis) == CASE axis = "i" -> 3 [] axis = "j" -> 2 [] axis = "k" -> 1

\* The line of v along the axis at position ax that passes through the
\* 0-based index ix.
LineThrough(v, ax, ix) ==
  Buffer([t \in 1..v.shape[ax] |-> At(v, [ix EXCEPT ![ax] = t - 1])], v.shape[ax])

\* The volume of the X outcome (H = detail, L = approximation) of the 1D
\* primitive along an axis of v: its sample at an index is the element, at
\* the index's position along the axis, of the primitive's output for the
\* line through the index.
AxisOutcome(v, axis, X) ==
  LET ax == AxisPos(axis)
      s  == v.shape
      n  == s[1] * s[2] * s[3]
      \* the two other axes, and the lines along ax numbered by their index
      \* on those
      o1 == IF ax = 1 THEN 2 ELSE 1
      o2 == IF ax = 3 THEN 2 ELSE 3
      LineNo(ix) == ix[o1] * s[o2] + ix[o2] + 1
      First(m) == [t \in 1..3 |->
                     IF t = o1 THEN (m - 1) \div s[o2]
                     ELSE IF t = o2 THEN (m - 1) % s[o2] ELSE 0]
      outs == Buffer([m \in 1..(s[o1] * s[o2]) |->
                        LET r == swt(LineThrough(v, ax, First(m)), wavelet)
                        IN  IF X = "H" THEN r.cD ELSE r.cA],
                     s[o1] * s[o2])
  IN  [shape |-> s,
       flat  |-> Buffer([f \in 1..n |->
                    LET ix == Unravel(s, f)
                    IN  outs[LineNo(ix)][ix[ax] + 1]], n)]

Outcomes == {"H", "L"}

\* The call of the pass that transforms along axis-j the X outcome of axis-i,
\* and the one that transforms along axis-k the Y outcome of that.
CallJ(X) == IF X = "H" THEN calls[2] ELSE calls[3]
CallK(X, Y) ==
  calls[4 + (IF X = "H" THEN 0 ELSE 2) + (IF Y = "H" THEN 0 ELSE 1)]

Pick(c, X) == IF X = "H" THEN c.H ELSE c.L

EmissionPassDone == pc \in {"emit", "return"} /\ Len(calls) = 7

\* C11: composition order and labelling.  After an emission pass, its seven
\* decomposer calls are, in order, one along axis-i on the pass's input, two
\* along axis-j on the H and the L result of the first, four along axis-k on the
\* H and L results of those; and for every label XYZ other than LLL the image
\* stored under XYZ is made of the Z outcome along axis-k of the Y outcome
\* along axis-j of the X outcome along axis-i of the pass's input (its first
\* samples in C order, in the original shape); the pass's LLL is that volume
\* for L, L, L.
C11_CompositionLabelling ==
  EmissionPassDone =>
    LET input == passes[Len(passes)].input
        dec   == ret[Len(ret)]
    IN  /\ << calls[1].axis, calls[2].axis, calls[3].axis, calls[4].axis,
              calls[5].axis, calls[6].axis, calls[7].axis >>
             = << "i", "j", "j", "k", "k", "k", "k" >>
        /\ calls[1].input = input
        /\ \A X \in Outcomes : \A vi \in {AxisOutcome(input, "i", X)} :
             /\ CallJ(X).input = Pick(calls[1], X)
             /\ \A Y \in Outcomes : \A vj \in {AxisOutcome(vi, "j", Y)} :
                  /\ CallK(X, Y).input = Pick(CallJ(X), Y)
                  /\ \A Z \in Outcomes :
                       LET band == AxisOutcome(vj, "k", Z)
                           label == X \o Y \o Z
                       IN  /\ Pick(CallK(X, Y), Z) = band
                           /\ IF label = "LLL"
                              THEN passes[Len(passes)].LLL = band
                              ELSE /\ label \in DOMAIN dec
                                   /\ dec[label].shape = original_shape
                                   /\ Truncation(dec[label], band)

C11_Witness ==
  /\ pc = "emit"
  /\ EmissionPassDone
  /\ kwargs.start_level = 1
  /\ inputImage.shape = <<3, 2, 3>>
  /\ calls[1].input = passes[2].input
  /\ calls[5].input = calls[2].L
  /\ ret[1]["HLH"].flat # ret[1]["HHL"].flat
  /\ ret[1]["HLH"].flat # ret[1]["LHH"].flat
  /\ Truncation(ret[1]["HLH"], calls[5].H)

\* A filter pair under which the primitive returns its input line twice.
IdentityFilter == [name |-> "identity", dec_lo |-> <<0, 1>>, dec_hi |-> <<0, 1>>]

\* The decomposer of an axis.
Decompose(axis, v, w) ==
  CASE axis = "i" -> _decompose_i(v, w)
    [] axis = "j" -> _decompose_j(v, w)
    [] axis = "k" -> _decompose_k(v, w)

PassDone == pc \in {"warmup", "emit", "return"} /\ calls # <<>>

\* C12: axis decomposer reassembly.  For every decomposer call of a pass, the
\* two returned volumes have the shape of the argument and as many samples;
\* the sample of H (of L) at an index is the element, at the index's position
\* along the transformed axis, of the detail (approximation) output of the
\* primitive for the argument's line through that index; and the same
\* decomposer under the identity filter returns the argument twice.
C12_AxisReassembly ==
  PassDone =>
    \A n \in 1..Len(calls) :
      LET c == calls[n]
      IN  /\ c.axis \in {"i", "j", "k"}
          /\ Len(c.input.shape) = 3
          /\ c.H.shape = c.input.shape
          /\ c.L.shape = c.input.shape
          /\ Len(c.H.flat) = Len(c.input.flat)
          /\ Len(c.L.flat) = Len(c.input.flat)
          /\ c.H = AxisOutcome(c.input, c.axis, "H")
          /\ c.L = AxisOutcome(c.input, c.axis, "L")
          /\ \A r \in {Decompose(c.axis, c.input, IdentityFilter)} :
               /\ r.H = c.input
               /\ r.L = c.input

C12_Witness ==
  /\ PassDone
  /\ Len(calls) = 7
  /\ calls[2].axis = "j"
  /\ calls[4].axis = "k"
  /\ calls[4].input.shape = <<4, 2, 4>>
  /\ calls[4].H.shape = <<4, 2, 4>>
  /\ calls[4].H # calls[4].input
  /\ calls[4].H # calls[4].L
  /\ At(calls[4].H, <<1, 0, 2>>)
       = swt(LineThrough(calls[4].input, 1, <<1, 0, 2>>), wavelet).cD[2]
  /\ At(calls[2].L, <<3, 1, 0>>)
       = swt(LineThrough(calls[2].input, 2, <<3, 1, 0>>), wavelet).cA[2]

\* The working shape of the input: odd extents plus one, even ones as is.
WorkingShape ==
  LET s == inputImage.shape
  IN  << IF s[1] % 2 = 1 THEN s[1] + 1 ELSE s[1],
         IF s[2] % 2 = 1 THEN s[2] + 1 ELSE s[2],
         IF s[3] % 2 = 1 THEN s[3] + 1 ELSE s[3] >>

\* C13: working-shape invariant.  From the padding step on, adjusted_shape is
\* the working shape of the original shape and stays so; the working volume
\* has that shape before and between the passes; the argument of every
\* decomposer call of every warm-up and emission pass has that shape, so the
\* extent along the axis it transforms is even; and no run ends because the
\* primitive was given a line of odd length.
C13_WorkingShape ==
  /\ err # "ValueError: Length of data must be even"
  /\ adjusted_shape # NoShape =>
       /\ original_shape = inputImage.shape
       /\ adjusted_shape = WorkingShape
       /\ \A n \in 1..3 : adjusted_shape[n] % 2 = 0
  /\ pc \in {"resolve", "warmup", "emit", "return"} => data.shape = adjusted_shape
  /\ \A n \in 1..Len(calls) :
       /\ calls[n].input.shape = adjusted_shape
       /\ calls[n].input.shape[AxisPos(calls[n].axis)] % 2 = 0
       /\ Len(calls[n].input.flat) = adjusted_shape[1] * adjusted_shape[2] * adjusted_shape[3]

C13_Witness ==
  /\ pc = "return"
  /\ kwargs.start_level = 1
  /\ kwargs.level = 2
  /\ Len(passes) = 3
  /\ inputImage.shape = <<3, 1, 2>>
  /\ adjusted_shape = <<4, 2, 2>>
  /\ Len(calls) = 7
  /\ \A n \in 1..7 : calls[n].input.shape = <<4, 2, 2>>
  /\ \A n \in 1..3 : passes[n].input.shape = <<4, 2, 2>>

====
